---- MODULE Spec2Model ----
(***************************************************************************)
(* Model of calculator.py: the PVGIS irradiance lookup get_pvout_annual    *)
(* and the sizing / economics function calculate_solar_economics.          *)
(*                                                                         *)
(* Python values are records [t, s, n, d]:                                 *)
(*   t = "none"  None                                                      *)
(*   t = "str"   the string s                                              *)
(*   t = "fin"   the finite float n/d (d > 0, lowest terms)                *)
(*   t = "inf"   +inf (n = 1) or -inf (n = -1)                             *)
(*   t = "nan"   NaN                                                       *)
(*   t = "exc"   a raised exception of class s                             *)
(* Finite floats are exact rationals: binary rounding error of IEEE        *)
(* doubles and overflow of finite operands are not represented; the        *)
(* special values inf and nan and every raised exception are.              *)
(***************************************************************************)
EXTENDS Integers, Sequences, FiniteSets, TLC

\* ------------------------------------------------------------------ bounds
MaxBill == 3

\* ------------------------------------------------------------ value helpers
V(t, s, n, d) == [t |-> t, s |-> s, n |-> n, d |-> d]

None == V("none", "", 0, 0)
Str(s) == V("str", s, 0, 0)
PosInf == V("inf", "", 1, 0)
NegInf == V("inf", "", -1, 0)
NaN == V("nan", "", 0, 0)
Exc(cls) == V("exc", cls, 0, 0)

Abs(x) == IF x < 0 THEN -x ELSE x
Sgn(x) == IF x < 0 THEN -1 ELSE IF x = 0 THEN 0 ELSE 1

RECURSIVE GCD(_, _)
GCD(a, b) == IF b = 0 THEN a ELSE GCD(b, a % b)

RECURSIVE Pow10(_)
Pow10(k) == IF k = 0 THEN 1 ELSE 10 * Pow10(k - 1)

\* the float n/d, normalised
Fin(n, d) ==
    IF n = 0 THEN V("fin", "", 0, 1)
    ELSE LET g == GCD(Abs(n), Abs(d))
         IN  V("fin", "", Sgn(d) * (n \div g), Abs(d) \div g)

IsExc(x) == x.t = "exc"

\* ------------------------------------------------------------ constants
DEFAULT_TARIFF == Fin(169953, 100)
COST_PER_KWP == Fin(12390000, 1)
LOSS_FACTOR == Fin(85, 100)
PANEL_WATT_PEAK == Fin(650, 1)
PANEL_AREA_SQM == Fin(271, 100)
REQUEST_TIMEOUT == 12

\* --------------------------------------------------- Python float semantics
\* float(x): None raises TypeError, a string is parsed, a float is itself
FloatOf(x) ==
    CASE x.t = "none" -> Exc("TypeError")
      [] x.t = "str" ->
            CASE x.s = "0" -> Fin(0, 1)
              [] x.s = "1500" -> Fin(1500, 1)
              [] x.s = "inf" -> PosInf
              [] x.s = "nan" -> NaN
              [] OTHER -> Exc("ValueError")
      [] OTHER -> x

\* bool(x): None, "", 0 and 0.0 are false
Truthy(x) ==
    CASE x.t = "none" -> FALSE
      [] x.t = "str" -> x.s # ""
      [] x.t = "fin" -> x.n # 0
      [] OTHER -> TRUE

FGt0(x) == (x.t = "fin" /\ x.n > 0) \/ (x.t = "inf" /\ x.n > 0)
FLt0(x) == (x.t = "fin" /\ x.n < 0) \/ (x.t = "inf" /\ x.n < 0)
FEq0(x) == x.t = "fin" /\ x.n = 0
FSign(x) == IF FGt0(x) THEN 1 ELSE IF FLt0(x) THEN -1 ELSE 0

\* x * y
FMul(x, y) ==
    IF IsExc(x) THEN x
    ELSE IF IsExc(y) THEN y
    ELSE IF x.t = "nan" \/ y.t = "nan" THEN NaN
    ELSE IF x.t = "inf" \/ y.t = "inf" THEN
        IF FEq0(x) \/ FEq0(y) THEN NaN
        ELSE IF FSign(x) * FSign(y) > 0 THEN PosInf ELSE NegInf
    ELSE IF x.n = 0 \/ y.n = 0 THEN Fin(0, 1)
    ELSE LET g1 == GCD(Abs(x.n), y.d)
             g2 == GCD(Abs(y.n), x.d)
         IN  V("fin", "", (x.n \div g1) * (y.n \div g2), (x.d \div g2) * (y.d \div g1))

\* x / y: a zero divisor raises ZeroDivisionError whatever the dividend
FDiv(x, y) ==
    IF IsExc(x) THEN x
    ELSE IF IsExc(y) THEN y
    ELSE IF FEq0(y) THEN Exc("ZeroDivisionError")
    ELSE IF x.t = "nan" \/ y.t = "nan" THEN NaN
    ELSE IF x.t = "inf" THEN
        IF y.t = "inf" THEN NaN
        ELSE IF FSign(x) * FSign(y) > 0 THEN PosInf ELSE NegInf
    ELSE IF y.t = "inf" THEN Fin(0, 1)
    ELSE FMul(x, V("fin", "", Sgn(y.n) * y.d, Abs(y.n)))

\* the first k decimal digits of r/d (0 <= r < d) as an integer, by long
\* division, with the remainder left over
RECURSIVE Digits(_, _, _, _)
Digits(r, d, k, acc) ==
    IF k = 0 THEN <<acc, r>>
    ELSE Digits((r * 10) % d, d, k - 1, acc * 10 + ((r * 10) \div d))

\* round(x, k): round-half-even to k decimals; inf and nan are returned as is
Round(x, k) ==
    IF x.t # "fin" THEN x
    ELSE LET a == Abs(x.n)
             q == a \div x.d
             ds == Digits(a % x.d, x.d, k, 0)
             lo == q * Pow10(k) + ds[1]
             r == ds[2]
             up == (r > x.d - r) \/ (r = x.d - r /\ lo % 2 = 1)
             m == IF up THEN lo + 1 ELSE lo
         IN  Fin(Sgn(x.n) * m, Pow10(k))

\* int(math.ceil(x)) as a Python value: inf raises OverflowError, nan ValueError
CeilInt(x) ==
    IF IsExc(x) THEN x
    ELSE IF x.t = "inf" THEN Exc("OverflowError")
    ELSE IF x.t = "nan" THEN Exc("ValueError")
    ELSE Fin(-((-x.n) \div x.d), 1)


\* ------------------------------------------------- calculate_solar_economics
\* line 64: the given tariff if it is truthy and float(tariff) > 0, else the default
TdlStrict(tarif_listrik) ==
    IF ~Truthy(tarif_listrik) THEN DEFAULT_TARIFF
    ELSE LET f == FloatOf(tarif_listrik)
         IN  IF IsExc(f) THEN f
             ELSE IF FGt0(f) \/ FEq0(f) THEN f ELSE DEFAULT_TARIFF

Tdl(tarif_listrik) ==
    IF ~Truthy(tarif_listrik) THEN DEFAULT_TARIFF
    ELSE LET f == FloatOf(tarif_listrik)
         IN  IF IsExc(f) THEN f
             ELSE IF FGt0(f) THEN f ELSE DEFAULT_TARIFF

\* line 65: float(tagihan) / tdl, guarded by float(tdl) != 0
KebutuhanEnergiBulanan(tagihan_listrik, tdl) ==
    IF IsExc(tdl) THEN tdl
    ELSE IF ~FEq0(tdl) THEN FDiv(FloatOf(tagihan_listrik), tdl)
    ELSE Fin(0, 1)

\* line 66
PenghematanDesimal(penghematan_persen) == FDiv(FloatOf(penghematan_persen), Fin(100, 1))

\* line 70: (float(pvout_annual) / 12.0) * LOSS_FACTOR
PvoutMonthlyEffectiveNoLoss(pvout_annual) ==
    FMul(FDiv(FloatOf(pvout_annual), Fin(12, 1)), Fin(0, 1))

PvoutMonthlyEffective(pvout_annual) ==
    FMul(FDiv(FloatOf(pvout_annual), Fin(12, 1)), LOSS_FACTOR)

\* line 71: the zero-yield test that guards the division of line 74
IsZeroYieldNever(pvout_monthly_effective) == FALSE

IsZeroYield(pvout_monthly_effective) == FEq0(pvout_monthly_effective)

\* line 75: investment from the unrounded capacity
TotalInvestasiFromRounded(kapasitas_kwp) == FMul(Round(kapasitas_kwp, 2), COST_PER_KWP)

TotalInvestasi(kapasitas_kwp) == FMul(kapasitas_kwp, COST_PER_KWP)

\* line 76
PenghematanTahunanUang(target_produksi_bulanan, tdl) ==
    FMul(FMul(target_produksi_bulanan, Fin(12, 1)), tdl)

\* line 77: break-even years, float('inf') when the savings are not > 0
BepTahun(total_investasi, penghematan_tahunan_uang) ==
    IF IsExc(total_investasi) THEN total_investasi
    ELSE IF IsExc(penghematan_tahunan_uang) THEN penghematan_tahunan_uang
    ELSE IF FGt0(penghematan_tahunan_uang)
         THEN FDiv(total_investasi, penghematan_tahunan_uang)
         ELSE PosInf

\* line 79: panels from the unrounded capacity, 0 when it is not > 0
JumlahPanelFloor(kapasitas_kwp) ==
    IF IsExc(kapasitas_kwp) THEN kapasitas_kwp
    ELSE IF FGt0(kapasitas_kwp)
         THEN LET c == CeilInt(FDiv(FMul(kapasitas_kwp, Fin(1000, 1)), PANEL_WATT_PEAK))
              IN  IF IsExc(c) THEN c ELSE Fin(c.n - 1, 1)
         ELSE Fin(0, 1)

JumlahPanel(kapasitas_kwp) ==
    IF IsExc(kapasitas_kwp) THEN kapasitas_kwp
    ELSE IF FGt0(kapasitas_kwp)
         THEN CeilInt(FDiv(FMul(kapasitas_kwp, Fin(1000, 1)), PANEL_WATT_PEAK))
         ELSE Fin(0, 1)

\* line 93: the BEP_Tahun field
BepFieldWhole(bep_tahun) == IF bep_tahun # PosInf THEN Round(bep_tahun, 0) ELSE Str("Inf")

BepField(bep_tahun) == IF bep_tahun # PosInf THEN Round(bep_tahun, 1) ELSE Str("Inf")

\* line 99: except Exception catches every exception class the body can raise
ExceptionClasses == {"TypeError", "ValueError", "OverflowError", "ZeroDivisionError"}

CalcCatchesValueErrorOnly(cls) == cls = "ValueError"

CalcCatches(cls) == cls \in ExceptionClasses

\* the locals in the order their lines run, before and after the test of line 71
LineOrder(L) ==
    <<L.tdl, L.kebutuhan_energi_bulanan, L.penghematan_desimal,
      L.target_produksi_bulanan, L.pvout_monthly_effective>>

LineOrderAfterTest(L) ==
    <<L.kapasitas_kwp, L.total_investasi, L.penghematan_tahunan_uang,
      L.bep_tahun, L.jumlah_panel, L.estimasi_area>>

\* the first exception among a sequence of line values, or None
RECURSIVE FirstExc(_)
FirstExc(vals) ==
    IF vals = <<>> THEN None
    ELSE IF IsExc(Head(vals)) THEN Head(vals)
    ELSE FirstExc(Tail(vals))

\* the divisors of the float divisions a run with locals L performs, in
\* order; a division is performed once both its operands are evaluated, also
\* when it then raises
Divisors(pvout_annual, tagihan_listrik, penghematan_persen, L) ==
    LET d65 == IF ~IsExc(L.tdl) /\ ~FEq0(L.tdl) /\ ~IsExc(FloatOf(tagihan_listrik))
               THEN <<L.tdl>> ELSE <<>>
        ok65 == ~IsExc(L.kebutuhan_energi_bulanan)
        d66 == IF ok65 /\ ~IsExc(FloatOf(penghematan_persen))
               THEN <<Fin(100, 1)>> ELSE <<>>
        ok67 == ok65 /\ ~IsExc(L.target_produksi_bulanan)
        d70 == IF ok67 /\ ~IsExc(FloatOf(pvout_annual)) THEN <<Fin(12, 1)>> ELSE <<>>
        ok70 == ok67 /\ ~IsExc(L.pvout_monthly_effective)
        run74 == ok70 /\ ~IsZeroYield(L.pvout_monthly_effective)
        d74 == IF run74 THEN <<L.pvout_monthly_effective>> ELSE <<>>
        ok76 == run74 /\ ~IsExc(L.penghematan_tahunan_uang)
        d77 == IF ok76 /\ FGt0(L.penghematan_tahunan_uang)
               THEN <<L.penghematan_tahunan_uang>> ELSE <<>>
        ok77 == ok76 /\ ~IsExc(L.bep_tahun)
        d79 == IF ok77 /\ FGt0(L.kapasitas_kwp) THEN <<PANEL_WATT_PEAK>> ELSE <<>>
    IN  d65 \o d66 \o d70 \o d74 \o d77 \o d79

\* lines 83-97: the success record
SuccessRecord(pvout_annual, L) ==
    [status |-> "success",
     TDL_Used |-> Round(L.tdl, 2),
     PVOut_Annual |-> Round(FloatOf(pvout_annual), 1),
     PVOUT_Bulanan_Efektif |-> Round(L.pvout_monthly_effective, 4),
     Kebutuhan_kWh_Bulanan |-> Round(L.kebutuhan_energi_bulanan, 2),
     Kapasitas_kWp |-> Round(L.kapasitas_kwp, 2),
     Produksi_kWh_Bulanan |-> Round(L.produksi_kwh_bulanan, 4),
     Total_Investasi |-> Round(L.total_investasi, 0),
     Penghematan_Tahunan_Rp |-> Round(L.penghematan_tahunan_uang, 0),
     BEP_Tahun |-> BepField(L.bep_tahun),
     Jumlah_Panel |-> L.jumlah_panel.n,
     Estimasi_Area_m2 |-> Round(L.estimasi_area, 2),
     LOSS_FACTOR |-> LOSS_FACTOR]

ZeroYieldMessage ==
    <<"PVOut", "tahunan", "tidak", "valid", "(0)", "atau", "LOSS_FACTOR=0", ".">>

CalcErrorMessage(cls) == <<"Kesalahan", "perhitungan", "finansial", ":", cls>>

\* what a run with locals L hands back: the handler of lines 99-100, the
\* early return of lines 71-72, the return of lines 83-97
Outcome(pvout_annual, L) ==
    LET e1 == FirstExc(LineOrder(L))
        e2 == FirstExc(LineOrderAfterTest(L))
        Handle(e) == IF CalcCatches(e.s) THEN [error |-> CalcErrorMessage(e.s)]
                     ELSE [raised |-> e.s]
    IN  IF IsExc(e1) THEN Handle(e1)
        ELSE IF IsZeroYield(L.pvout_monthly_effective) THEN [error |-> ZeroYieldMessage]
        ELSE IF IsExc(e2) THEN Handle(e2)
        ELSE SuccessRecord(pvout_annual, L)

\* ------------------------------------------------------------ get_pvout_annual
\* A JSON object is a record of its keys; any other JSON value is a Python
\* value record (it has the field t).
IsObject(x) == "t" \notin DOMAIN x

List == V("list", "", 0, 0)

\* x[key]: a missing key raises KeyError, subscripting a non-object TypeError
Raised(x) == ~IsObject(x) /\ x.t = "exc"

GetItem(x, key) ==
    IF Raised(x) THEN x
    ELSE IF ~IsObject(x) THEN Exc("TypeError")
    ELSE IF key \in DOMAIN x THEN x[key]
    ELSE Exc("KeyError")

\* float(v) of a JSON value: lists raise TypeError like None
JsonFloat(v) ==
    IF IsObject(v) \/ v.t = "list" THEN Exc("TypeError") ELSE FloatOf(v)

\* lines 20-25: the one GET request, with peakpower=1 and the 12 s timeout
Request(latitude, longitude, loss, slope, azimuth) ==
    [endpoint |-> "https://re.jrc.ec.europa.eu/api/PVcalc",
     lat |-> latitude, lon |-> longitude, peakpower |-> 1, loss |-> loss,
     slope |-> slope, azimuth |-> azimuth, outputformat |-> "json",
     timeout |-> REQUEST_TIMEOUT]

\* line 25: requests.get raises on a timeout, DNS failure or refused connection
TransportException(net) ==
    CASE net.transport = "timeout" -> Exc("Timeout")
      [] net.transport = "dns" -> Exc("ConnectionError")
      [] net.transport = "refused" -> Exc("ConnectionError")
      [] OTHER -> None

\* line 26: Response.raise_for_status raises HTTPError for 4xx and 5xx only;
\* a final 1xx or 3xx answer (a 304, a redirect without Location) passes
RaiseForStatusClientOnly(status) ==
    IF 400 <= status /\ status < 500 THEN Exc("HTTPError") ELSE None

RaiseForStatus(status) ==
    IF 400 <= status /\ status < 600 THEN Exc("HTTPError") ELSE None

\* line 27: r.json() raises on a body that is not JSON; the class is
\* requests.exceptions.JSONDecodeError (a RequestException) from requests 2.27
\* on and a plain ValueError subclass before, so the installed version decides
ResponseJson(net) ==
    IF net.body_is_json THEN net.data
    ELSE IF net.new_requests THEN Exc("RequestsJSONDecodeError")
    ELSE Exc("JSONDecodeError")

\* line 32: the one path that is read
E_Y_PATH == <<"outputs", "totals", "fixed", "E_y">>

RECURSIVE Walk(_, _)
Walk(x, path) ==
    IF path = <<>> THEN x ELSE Walk(GetItem(x, Head(path)), Tail(path))

\* line 33: the inner except Exception
InnerCatchesKeyErrorOnly(cls) == cls = "KeyError"

InnerCatches(cls) == cls \in {"KeyError", "TypeError", "ValueError"}

\* line 43: the classes derived from requests.exceptions.RequestException
IsRequestException(cls) ==
    cls \in {"Timeout", "ConnectionError", "HTTPError", "RequestsJSONDecodeError"}

\* line 45: the outer except Exception
OuterCatchesNothing(cls) == FALSE

OuterCatches(cls) ==
    cls \in {"KeyError", "TypeError", "ValueError", "JSONDecodeError", "OverflowError"}

RequestErrorMessage(cls) == <<"PVGIS", "request", "error", ":", cls>>
MissingMessage == <<"PVGIS", "response", "missing", "E_y", "value", ".">>
UnexpectedMessage(cls) == <<"Unexpected", "error", "while", "fetching", "PVOUT", ":", cls>>

\* lines 43-46: the two outer handlers, in order
OuterHandler(e) ==
    IF IsRequestException(e.s) THEN [error |-> RequestErrorMessage(e.s)]
    ELSE IF OuterCatches(e.s) THEN [error |-> UnexpectedMessage(e.s)]
    ELSE [raised |-> e.s]

\* line 40: str(round(v, 1)).replace(".", ","): whole part, comma, one decimal
PvoutFormatted(v) ==
    IF v.t # "fin" THEN <<v.t>>
    ELSE LET r == Round(v, 1)
             m == (Abs(r.n) * 10) \div r.d
         IN  <<IF r.n < 0 THEN "-" ELSE "", m \div 10, ",", m % 10>>

\* lines 19-46
GetPvoutAnnual(net) ==
    LET t == TransportException(net)
        h == RaiseForStatus(net.status)
        data == ResponseJson(net)
        pvout_value == Walk(data, E_Y_PATH)
        f == JsonFloat(pvout_value)
    IN  IF IsExc(t) THEN OuterHandler(t)
        ELSE IF IsExc(h) THEN OuterHandler(h)
        ELSE IF Raised(data) THEN OuterHandler(data)
        ELSE IF Raised(pvout_value) THEN
            IF InnerCatches(pvout_value.s) THEN [error |-> MissingMessage]
            ELSE OuterHandler(pvout_value)
        ELSE IF IsExc(f) THEN OuterHandler(f)
        ELSE [pvout_numeric |-> f, pvout_formatted |-> PvoutFormatted(f)]

\* the key paths the run subscripts the parsed response with
PathsTried(net) ==
    IF IsExc(TransportException(net)) \/ IsExc(RaiseForStatus(net.status))
       \/ Raised(ResponseJson(net))
    THEN <<>> ELSE <<E_Y_PATH>>


\* ------------------------------------------------------------------ inputs
PvoutInputs ==
    {None, Str("abc"), Fin(0, 1), Fin(1200, 1), Fin(1500, 1), Fin(-1200, 1),
     PosInf, NaN}

BillInputs ==
    {None, Str("abc"), Fin(-1, 1), PosInf, NaN} \cup {Fin(b, 1) : b \in 0..MaxBill}

TariffInputs ==
    {None, Str(""), Str("0"), Str("abc"), Str("1500"), Fin(0, 1), Fin(-1, 1),
     Fin(1, 1), Fin(1500, 1), Fin(1, 16), PosInf, NaN}

PercentInputs ==
    {None, Fin(-50, 1), Fin(0, 1), Fin(1, 1), Fin(50, 1), Fin(100, 1), PosInf}

\* calls with a bill of everyday size
ExampleCalls ==
    {<<Fin(1500, 1), Fin(1000000, 1), Fin(1500, 1), Fin(100, 1)>>,
     <<Fin(1500, 1), Fin(1000000, 1), Str("1500"), Fin(50, 1)>>,
     <<Fin(1200, 1), Fin(650000, 1), Fin(1500, 1), Fin(100, 1)>>}

CalcCalls ==
    (PvoutInputs \X BillInputs \X TariffInputs \X PercentInputs) \cup ExampleCalls

\* values the response may carry at outputs.totals.fixed.E_y
EyValues == {Fin(1500, 1), Fin(149687, 100), Str("1500"), Str("abc"), None, List}

DocWithEy(v) ==
    [inputs |-> None, outputs |-> [totals |-> [fixed |-> [E_y |-> v, E_d |-> Fin(4, 1)]]]]

\* parsed bodies in which some step of the path is absent
DocsWithoutEy ==
    {None, List,
     [message |-> Str("abc")],
     [inputs |-> None, outputs |-> List],
     [inputs |-> None, outputs |-> [monthly |-> List]],
     [inputs |-> None, outputs |-> [totals |-> None]],
     [inputs |-> None, outputs |-> [totals |-> [tracking |-> List]]],
     [inputs |-> None, outputs |-> [totals |-> [fixed |-> Str("abc")]]],
     [inputs |-> None, outputs |-> [totals |-> [fixed |-> [E_d |-> Fin(4, 1)]]]]}

Docs == {DocWithEy(v) : v \in EyValues} \cup DocsWithoutEy

StatusCodes == {200, 204, 304, 404, 500}

NetOutcomes ==
    [transport : {"ok", "timeout", "dns", "refused"},
     status : StatusCodes,
     body_is_json : BOOLEAN,
     data : Docs,
     new_requests : BOOLEAN]

Latitudes == {Fin(5, 2), Fin(-91, 1)}

\* ------------------------------------------------------------------- state
VARIABLES pc, fn, args, res, loc, divs, net, http, paths

vars == <<pc, fn, args, res, loc, divs, net, http, paths>>

Nil == [nil |-> TRUE]

Init ==
    /\ pc = "idle"
    /\ fn = "none"
    /\ args = Nil
    /\ res = Nil
    /\ loc = Nil
    /\ divs = <<>>
    /\ net = Nil
    /\ http = <<>>
    /\ paths = <<>>

\* the caller runs calculate_solar_economics to its return: each local of
\* lines 64-81 in turn (an exception value when its line raised), then the
\* outcome
Calculate(pvout_annual, tagihan_listrik, tarif_listrik, penghematan_persen) ==
    /\ pc = "idle"
    /\ \E tdl \in {Tdl(tarif_listrik)} :
       \E kebutuhan_energi_bulanan \in {KebutuhanEnergiBulanan(tagihan_listrik, tdl)} :
       \E penghematan_desimal \in {PenghematanDesimal(penghematan_persen)} :
       \E target_produksi_bulanan \in {FMul(kebutuhan_energi_bulanan, penghematan_desimal)} :
       \E pvout_monthly_effective \in {PvoutMonthlyEffective(pvout_annual)} :
       \E kapasitas_kwp \in {FDiv(target_produksi_bulanan, pvout_monthly_effective)} :
       \E total_investasi \in {TotalInvestasi(kapasitas_kwp)} :
       \E penghematan_tahunan_uang \in {PenghematanTahunanUang(target_produksi_bulanan, tdl)} :
       \E bep_tahun \in {BepTahun(total_investasi, penghematan_tahunan_uang)} :
       \E jumlah_panel \in {JumlahPanel(kapasitas_kwp)} :
       \E estimasi_area \in {FMul(jumlah_panel, PANEL_AREA_SQM)} :
       \E L \in {[tdl |-> tdl,
                  kebutuhan_energi_bulanan |-> kebutuhan_energi_bulanan,
                  penghematan_desimal |-> penghematan_desimal,
                  target_produksi_bulanan |-> target_produksi_bulanan,
                  pvout_monthly_effective |-> pvout_monthly_effective,
                  kapasitas_kwp |-> kapasitas_kwp,
                  total_investasi |-> total_investasi,
                  penghematan_tahunan_uang |-> penghematan_tahunan_uang,
                  bep_tahun |-> bep_tahun,
                  jumlah_panel |-> jumlah_panel,
                  estimasi_area |-> estimasi_area,
                  produksi_kwh_bulanan |-> target_produksi_bulanan]} :
          /\ loc' = L
          /\ res' = Outcome(pvout_annual, L)
          /\ divs' = Divisors(pvout_annual, tagihan_listrik, penghematan_persen, L)
    /\ pc' = "returned"
    /\ fn' = "calculate_solar_economics"
    /\ args' = [pvout_annual |-> pvout_annual, tagihan_listrik |-> tagihan_listrik,
                tarif_listrik |-> tarif_listrik, penghematan_persen |-> penghematan_persen]
    /\ UNCHANGED <<net, http, paths>>

\* the caller runs get_pvout_annual to its return; n is what the network does
Lookup(latitude, longitude, n) ==
    /\ pc = "idle"
    /\ pc' = "returned"
    /\ fn' = "get_pvout_annual"
    /\ args' = [latitude |-> latitude, longitude |-> longitude]
    /\ net' = n
    /\ http' = <<Request(latitude, longitude, Fin(14, 1), Fin(0, 1), Fin(0, 1))>>
    /\ paths' = PathsTried(n)
    /\ res' = GetPvoutAnnual(n)
    /\ UNCHANGED <<loc, divs>>

\* the caller takes the result; nothing of the call is kept
Return ==
    /\ pc = "returned"
    /\ pc' = "idle"
    /\ fn' = "none"
    /\ args' = Nil
    /\ res' = Nil
    /\ loc' = Nil
    /\ divs' = <<>>
    /\ net' = Nil
    /\ http' = <<>>
    /\ paths' = <<>>

Next ==
    \/ \E c \in CalcCalls : Calculate(c[1], c[2], c[3], c[4])
    \/ \E lat \in Latitudes, n \in NetOutcomes : Lookup(lat, Fin(99, 1), n)
    \/ Return

Spec == Init /\ [][Next]_vars


\* ------------------------------------------------------------- properties
CalcReturned == pc = "returned" /\ fn = "calculate_solar_economics"
LookupReturned == pc = "returned" /\ fn = "get_pvout_annual"

SuccessKeys ==
    {"status", "TDL_Used", "PVOut_Annual", "PVOUT_Bulanan_Efektif",
     "Kebutuhan_kWh_Bulanan", "Kapasitas_kWp", "Produksi_kWh_Bulanan",
     "Total_Investasi", "Penghematan_Tahunan_Rp", "BEP_Tahun", "Jumlah_Panel",
     "Estimasi_Area_m2", "LOSS_FACTOR"}

IsSuccess(r) == "status" \in DOMAIN r /\ r.status = "success"
IsFailure(r) == DOMAIN r = {"error"}

IsFloat(x) == x.t \in {"fin", "inf", "nan"}
Positive(x) == IsFloat(x) /\ FGt0(x)
FLe0(x) == FLt0(x) \/ FEq0(x)
Coercible(x) == ~IsExc(FloatOf(x))
PercentInRange(p) == p.t = "fin" /\ p.n > 0 /\ p.n <= 100 * p.d

\* j is the least integer that is >= the finite float x
IsCeilOf(j, x) == x.t = "fin" /\ (j - 1) * x.d < x.n /\ x.n <= j * x.d

\* the word sequence w occurs in the message msg
ContainsWords(msg, w) ==
    \E i \in 1..Len(msg) : i + Len(w) - 1 <= Len(msg) /\ SubSeq(msg, i, i + Len(w) - 1) = w

IsRequestError(r) == IsFailure(r) /\ ContainsWords(r.error, <<"request", "error">>)
IsMissingError(r) == IsFailure(r) /\ ContainsWords(r.error, <<"missing">>)
IsUnexpectedError(r) == IsFailure(r) /\ ContainsWords(r.error, <<"Unexpected", "error">>)

PathPresent(data) ==
    /\ IsObject(data) /\ "outputs" \in DOMAIN data
    /\ IsObject(data.outputs) /\ "totals" \in DOMAIN data.outputs
    /\ IsObject(data.outputs.totals) /\ "fixed" \in DOMAIN data.outputs.totals
    /\ IsObject(data.outputs.totals.fixed) /\ "E_y" \in DOMAIN data.outputs.totals.fixed

Transported == net.transport = "ok" /\ 200 <= net.status /\ net.status < 300

\* C1: whatever the four arguments are, the call hands back either the
\* success record (status "success", the twelve fields, no error key) or a
\* record holding only an error message; no exception leaves the call.
C1_TwoShapes ==
    CalcReturned =>
        \/ (DOMAIN res = SuccessKeys /\ res.status = "success")
        \/ (DOMAIN res = {"error"} /\ Len(res.error) > 0)

C1_Witness ==
    /\ CalcReturned
    /\ args.tagihan_listrik = None
    /\ res = [error |-> CalcErrorMessage("TypeError")]

C2Outcome ==
    /\ DOMAIN res = SuccessKeys
    /\ res.status = "success"
    /\ res.Kapasitas_kWp.t = "fin"
    /\ res.Kapasitas_kWp.n >= 0

\* C2 as stated: positive yield, bill and tariff and a percentage in (0,100]
\* give the success record with a capacity >= 0.
C2_Original ==
    (/\ CalcReturned
     /\ Positive(args.pvout_annual)
     /\ Positive(args.tagihan_listrik)
     /\ Positive(args.tarif_listrik)
     /\ PercentInRange(args.penghematan_persen)) => C2Outcome

\* C2 amended: the same, for a monthly bill that is finite.
C2_FiniteBill ==
    (/\ CalcReturned
     /\ Positive(args.pvout_annual)
     /\ Positive(args.tagihan_listrik) /\ args.tagihan_listrik.t = "fin"
     /\ Positive(args.tarif_listrik)
     /\ PercentInRange(args.penghematan_persen)) => C2Outcome

C2_Witness ==
    /\ CalcReturned
    /\ Positive(args.pvout_annual)
    /\ Positive(args.tagihan_listrik) /\ args.tagihan_listrik.t = "fin"
    /\ Positive(args.tarif_listrik)
    /\ PercentInRange(args.penghematan_persen)
    /\ IsSuccess(res)
    /\ res.Kapasitas_kWp.n > 0

\* C3: in a success record TDL_Used is 1699.53 when the tariff is absent or
\* <= 0 and the tariff rounded to 2 decimals when it is > 0; the tariff the
\* computation uses is > 0.
C3_EffectiveTariff ==
    (CalcReturned /\ IsSuccess(res)) =>
        LET t == args.tarif_listrik
            f == FloatOf(t)
        IN  /\ (t = None \/ t = Str("") \/ FLe0(f)) => res.TDL_Used = Fin(169953, 100)
            /\ FGt0(f) => res.TDL_Used = Round(f, 2)
            /\ FGt0(loc.tdl)

C3_Witness ==
    /\ CalcReturned
    /\ IsSuccess(res)
    /\ args.tarif_listrik = Fin(-1, 1)
    /\ res.TDL_Used = Fin(169953, 100)

\* C4 as stated: Jumlah_Panel is ceil(Kapasitas_kWp * 1000 / 650) of the
\* record's own (rounded) Kapasitas_kWp, and 0 when that field is <= 0.
C4_Original ==
    (CalcReturned /\ IsSuccess(res) /\ res.Kapasitas_kWp.t = "fin") =>
        IF res.Kapasitas_kWp.n > 0
        THEN IsCeilOf(res.Jumlah_Panel,
                      FDiv(FMul(res.Kapasitas_kWp, Fin(1000, 1)), Fin(650, 1)))
        ELSE res.Jumlah_Panel = 0

\* C4 amended: Jumlah_Panel is ceil(capacity * 1000 / 650) of the unrounded
\* capacity, and 0 when the unrounded capacity is not > 0.
C4_Unrounded ==
    (CalcReturned /\ IsSuccess(res)) =>
        IF FGt0(loc.kapasitas_kwp)
        THEN IsCeilOf(res.Jumlah_Panel,
                      FDiv(FMul(loc.kapasitas_kwp, Fin(1000, 1)), Fin(650, 1)))
        ELSE res.Jumlah_Panel = 0

C4_Witness ==
    /\ CalcReturned
    /\ IsSuccess(res)
    /\ res.Kapasitas_kWp = Fin(627, 100)
    /\ res.Jumlah_Panel = 10

\* C5 as stated: BEP_Tahun is "Inf" when Produksi_kWh_Bulanan * 12 * tariff
\* is <= 0 and otherwise round(Total_Investasi / Penghematan_Tahunan_Rp, 1)
\* of the record's own (rounded) fields.
C5_Original ==
    (CalcReturned /\ IsSuccess(res)) =>
        LET s == FMul(FMul(res.Produksi_kWh_Bulanan, Fin(12, 1)), loc.tdl)
        IN  /\ FLe0(s) => res.BEP_Tahun = Str("Inf")
            /\ FGt0(s) =>
                   res.BEP_Tahun =
                       Round(FDiv(res.Total_Investasi, res.Penghematan_Tahunan_Rp), 1)

\* C5 amended: BEP_Tahun is "Inf" when the unrounded annual savings are not
\* > 0 and otherwise the unrounded investment over the unrounded savings,
\* rounded to 1 decimal (an infinite quotient surfacing as "Inf").
C5_Unrounded ==
    (CalcReturned /\ IsSuccess(res)) =>
        LET s == loc.penghematan_tahunan_uang
            q == FDiv(loc.total_investasi, s)
        IN  IF ~FGt0(s) THEN res.BEP_Tahun = Str("Inf")
            ELSE IF q = PosInf THEN res.BEP_Tahun = Str("Inf")
            ELSE res.BEP_Tahun = Round(q, 1)

C5_Witness ==
    /\ CalcReturned
    /\ IsSuccess(res)
    /\ FGt0(loc.penghematan_tahunan_uang)
    /\ res.Penghematan_Tahunan_Rp = Fin(0, 1)
    /\ res.BEP_Tahun = Fin(81, 10)

\* C6: with pvout_annual = 0 and the other three arguments coercible to a
\* number, the call hands back a failure record and divides by no zero.
C6_ZeroYield ==
    (/\ CalcReturned
     /\ FEq0(FloatOf(args.pvout_annual))
     /\ Coercible(args.tagihan_listrik)
     /\ Coercible(args.tarif_listrik)
     /\ Coercible(args.penghematan_persen)) =>
        /\ IsFailure(res)
        /\ \A i \in 1..Len(divs) : ~FEq0(divs[i])

C6_Witness ==
    /\ CalcReturned
    /\ args.pvout_annual = Fin(0, 1)
    /\ args.tagihan_listrik = Fin(1, 1)
    /\ res = [error |-> ZeroYieldMessage]
    /\ Len(divs) = 3

\* C7 as stated: a timeout, DNS failure, refused connection or any non-2xx
\* status gives a failure whose message contains "request error".
C7_Original ==
    (LookupReturned /\ (net.transport # "ok" \/ ~(200 <= net.status /\ net.status < 300)))
        => IsRequestError(res)

\* C7 amended: a timeout, DNS failure, refused connection or a 4xx or 5xx
\* status gives a failure whose message contains "request error".
C7_ErrorStatus ==
    (LookupReturned /\ (net.transport # "ok" \/ (400 <= net.status /\ net.status < 600)))
        => IsRequestError(res)

C7_Witness ==
    /\ LookupReturned
    /\ net.transport = "ok"
    /\ net.status = 500
    /\ res = [error |-> RequestErrorMessage("HTTPError")]
    /\ Len(http) = 1

C9_Original ==
    (LookupReturned /\ "error" \in DOMAIN res) => (IsRequestError(res) \/ IsMissingError(res))

UnconvertibleEy ==
    /\ Transported /\ net.body_is_json /\ PathPresent(net.data)
    /\ IsExc(JsonFloat(net.data.outputs.totals.fixed.E_y))

\* C9 amended: the lookup hands back a success record or a failure of one of
\* three kinds (request error, missing value, unexpected error); an E_y that
\* is present but not convertible is an unexpected error, and a body that is
\* not JSON is a request error or an unexpected error by the requests version.
C9_ThreeKinds ==
    LookupReturned =>
        \/ DOMAIN res = {"pvout_numeric", "pvout_formatted"}
        \/ /\ IsFailure(res)
           /\ IsRequestError(res) \/ IsMissingError(res) \/ IsUnexpectedError(res)
           /\ ~(IsRequestError(res) /\ IsMissingError(res))
           /\ ~(IsRequestError(res) /\ IsUnexpectedError(res))
           /\ ~(IsMissingError(res) /\ IsUnexpectedError(res))
           /\ UnconvertibleEy => IsUnexpectedError(res)
           /\ (Transported /\ ~net.body_is_json) =>
                  IF net.new_requests THEN IsRequestError(res) ELSE IsUnexpectedError(res)

C9_Witness ==
    /\ LookupReturned
    /\ UnconvertibleEy
    /\ res = [error |-> UnexpectedMessage("TypeError")]

ClosedFormBep ==
    FDiv(COST_PER_KWP, FMul(FMul(args.pvout_annual, LOSS_FACTOR), loc.tdl))

====
